---------------------------- MODULE Spec2Model ----------------------------
(***************************************************************************)
(* A model of mlpack::distributed_kpca::KpcaResult (kpca_result.h): the    *)
(* three projection-bound matrices, the eigen fields, the pass-through     *)
(* matrices, boost serialization and the text emission of Print.           *)
(*                                                                         *)
(* Doubles are modelled by integers plus one reserved code, NaN, with the  *)
(* IEEE rules for it (every arithmetic operation on NaN gives NaN, every   *)
(* comparison with NaN is false).  Variances are drawn from perfect        *)
(* squares, so that sqrt is exact on them.  Matrices are arma::mat:        *)
(* n_rows, n_cols and a column-major memory block.                         *)
(***************************************************************************)
EXTENDS Integers, Sequences, FiniteSets, TLC

VARIABLES
    kpca_projections_l_,      \* arma::mat, lower bound
    kpca_projections_,        \* arma::mat, center
    kpca_projections_u_,      \* arma::mat, upper bound
    kernel_eigenvalues_,      \* arma::vec
    covariance_eigenvectors_, \* arma::mat
    reference_projections_,   \* arma::mat
    kpca_components_,         \* arma::mat
    kernel_sum,               \* the caller's MeanVariancePairMatrix (read-only)
    eigen_in,                 \* the caller's eigensolver output (read-only)
    sorted_eigenvalues,       \* the local vector of the last reordering call
    files,                    \* the file system: path -> contents
    writable,                 \* the paths fopen(path, "w+") can open
    archive,                  \* the boost archive written by the last save
    sent,                     \* the members of this KpcaResult at that save
    restored,                 \* the KpcaResult of the receiving node
    call,                     \* the last call: its name, arguments and outcome
    pre,                      \* what the object looked like before that call
    alive                     \* FALSE once undefined behaviour killed the process

vars == << kpca_projections_l_, kpca_projections_, kpca_projections_u_,
           kernel_eigenvalues_, covariance_eigenvectors_,
           reference_projections_, kpca_components_, kernel_sum, eigen_in,
           sorted_eigenvalues, files, writable, archive, sent, restored, call,
           pre, alive >>

-----------------------------------------------------------------------------
(* Bounds of the model.                                                    *)

\* No matrix of the model holds more elements than this.
MaxElems == 2

\* No eigensolver output of the model holds more eigenvalues, or more
\* eigenvector columns, than this.
MaxEigenvalues == 3

\* The shapes of the model: the empty ones with no row, no column or
\* neither, and every shape of 1 to MaxElems elements.
Shapes ==
    { << 0, 0 >>, << 0, 1 >>, << 1, 0 >> } \cup
    { rc \in (1..MaxElems) \X (1..MaxElems) : rc[1] * rc[2] <= MaxElems }

-----------------------------------------------------------------------------
(* double                                                                  *)

NaN == -(10 ^ 6)

Add(a, b) == IF a = NaN \/ b = NaN THEN NaN ELSE a + b

Sub(a, b) == IF a = NaN \/ b = NaN THEN NaN ELSE a - b

Mul(a, b) == IF a = NaN \/ b = NaN THEN NaN ELSE a * b

Leq(a, b) == a # NaN /\ b # NaN /\ a <= b

Gt(a, b) == a # NaN /\ b # NaN /\ a > b

\* sqrt(x): NaN below zero, the root otherwise (exact on perfect squares).
Sqrt(x) ==
    IF x = NaN \/ x < 0 THEN NaN
    ELSE CHOOSE r \in 0..x : r * r <= x /\ (r + 1) * (r + 1) > x

-----------------------------------------------------------------------------
(* arma::mat                                                               *)

\* Memory that was allocated and never written.
Uninitialized == NaN - 1

Mat(rows, cols, mem) == [n_rows |-> rows, n_cols |-> cols, mem |-> mem]

EmptyMat == Mat(0, 0, << >>)

n_elem(m) == m.n_rows * m.n_cols

InBounds(m, r, c) == r < m.n_rows /\ c < m.n_cols

\* m.at(r, c): no bounds check, column-major.
at(m, r, c) == m.mem[c * m.n_rows + r + 1]

\* The matrix of the given shape whose cell (r, c) is f[<<r, c>>].
MatOf(rows, cols, f) ==
    Mat(rows, cols,
        [x \in 1..(rows * cols) |->
            f[<< (x - 1) % rows, (x - 1) \div rows >>]])

Cells(m) == (0..(m.n_rows - 1)) \X (0..(m.n_cols - 1))

\* m.set_size(rows, cols): the memory is kept when the element count is
\* unchanged and is fresh, unwritten memory otherwise.
set_size(m, rows, cols) ==
    IF rows * cols = n_elem(m)
    THEN Mat(rows, cols, m.mem)
    ELSE Mat(rows, cols, [x \in 1..(rows * cols) |-> Uninitialized])

\* m.zeros(): every element set to zero, the shape kept.
zeros(m) == Mat(m.n_rows, m.n_cols, [x \in 1..n_elem(m) |-> 0])


AllZero(m) == \A x \in 1..n_elem(m) : m.mem[x] = 0

SameShape(a, b) == a.n_rows = b.n_rows /\ a.n_cols = b.n_cols

-----------------------------------------------------------------------------
(* core::monte_carlo::MeanVariancePairMatrix, as Export uses it            *)

\* One element: sample_mean() and sample_mean_variance().
Stat(mean, variance) ==
    [sample_mean |-> mean, sample_mean_variance |-> variance]

Stats == << Stat(10, 4), Stat(20, 1), Stat(0, -1) >>

\* The containers of every shape whose elements run through Stats in memory
\* order, from each starting point.
KernelSums ==
    { Mat(rc[1], rc[2],
          [x \in 1..(rc[1] * rc[2]) |-> Stats[((x + first) % Len(Stats)) + 1]]) :
      << rc, first >> \in Shapes \X (1..Len(Stats)) }

\* What a read outside the container's memory may yield.
StrayStats == { Stat(20, 1), Stat(0, -1) }

\* kernel_sum.get(k, i) for an element of the container.
get(ks, k, i) == at(ks, k, i)

-----------------------------------------------------------------------------
(* The inputs the calls draw from                                          *)

NumStandardDeviations == { -1, 0, 2 }

MultConsts == { -1, 0, 1 }

CorrectionTerms == { 0, 3 }

NumReferencePoints == { -1, 5 }

-----------------------------------------------------------------------------
(* KpcaResult::KpcaResult, SetZero, Init, Export                           *)

NoCall == [op |-> "KpcaResult"]

\* What the bound matrices looked like when a call began: whether they held
\* zeros only, and whether the call changes their shape.
Before(rows, cols) ==
    [zero    |-> /\ AllZero(kpca_projections_l_)
                 /\ AllZero(kpca_projections_)
                 /\ AllZero(kpca_projections_u_),
     resized |-> \/ kpca_projections_.n_rows # rows
                 \/ kpca_projections_.n_cols # cols]

KeptShape == Before(kpca_projections_.n_rows, kpca_projections_.n_cols)

\* The members no call of this group writes.
UNCHANGED_others ==
    UNCHANGED << kernel_eigenvalues_, covariance_eigenvectors_,
                 reference_projections_, kpca_components_, kernel_sum,
                 eigen_in, sorted_eigenvalues, files, writable, archive, sent,
                 restored >>

\* The three matrices after SetZero.
SetZeroOf(bounds) ==
    [l |-> zeros(bounds.l), c |-> zeros(bounds.c), u |-> zeros(bounds.u)]

\* Init as it would be without its closing SetZero.
InitOf_NoSetZero(bounds, num_components, num_reference_points, query_points) ==
    [l |-> set_size(bounds.l, num_components, query_points),
     c |-> set_size(bounds.c, num_components, query_points),
     u |-> set_size(bounds.u, num_components, query_points)]

\* The three matrices after Init(num_components, num_reference_points,
\* query_points).
InitOf(bounds, num_components, num_reference_points, query_points) ==
    SetZeroOf([l |-> set_size(bounds.l, num_components, query_points),
               c |-> set_size(bounds.c, num_components, query_points),
               u |-> set_size(bounds.u, num_components, query_points)])

\* Export as it would be with the deviation added below and subtracted above.
ExportCell_SignsSwapped(stat, num_standard_deviations, mult_const, correction_term_in) ==
    LET deviation ==
            Mul(num_standard_deviations, Sqrt(stat.sample_mean_variance))
    IN  [l |-> Mul(Add(Sub(stat.sample_mean, correction_term_in), deviation),
                   mult_const),
         c |-> Mul(Sub(stat.sample_mean, correction_term_in), mult_const),
         u |-> Mul(Sub(Sub(stat.sample_mean, correction_term_in), deviation),
                   mult_const)]

\* Export as it would be with the variance taken for the standard deviation.
ExportCell_NoSqrt(stat, num_standard_deviations, mult_const, correction_term_in) ==
    LET deviation == Mul(num_standard_deviations, stat.sample_mean_variance)
    IN  [l |-> Mul(Sub(Sub(stat.sample_mean, correction_term_in), deviation),
                   mult_const),
         c |-> Mul(Sub(stat.sample_mean, correction_term_in), mult_const),
         u |-> Mul(Add(Sub(stat.sample_mean, correction_term_in), deviation),
                   mult_const)]

\* The three values Export stores for one element of the container.
ExportCell(stat, num_standard_deviations, mult_const, correction_term_in) ==
    LET deviation ==
            Mul(num_standard_deviations, Sqrt(stat.sample_mean_variance))
    IN  [l |-> Mul(Sub(Sub(stat.sample_mean, correction_term_in), deviation),
                   mult_const),
         c |-> Mul(Sub(stat.sample_mean, correction_term_in), mult_const),
         u |-> Mul(Add(Sub(stat.sample_mean, correction_term_in), deviation),
                   mult_const)]

\* The three matrices after Export's loops, `read` being what
\* kernel_sum.get(k, i) returned for each (k, i) of kpca_projections_.
ExportOf(bounds, read, num_standard_deviations, mult_const, correction_term_in) ==
    LET cell == [rc \in Cells(bounds.c) |->
                    ExportCell(read[rc], num_standard_deviations, mult_const,
                               correction_term_in)]
        rows == bounds.c.n_rows
        cols == bounds.c.n_cols
    IN  [l |-> MatOf(rows, cols, [rc \in Cells(bounds.c) |-> cell[rc].l]),
         c |-> MatOf(rows, cols, [rc \in Cells(bounds.c) |-> cell[rc].c]),
         u |-> MatOf(rows, cols, [rc \in Cells(bounds.c) |-> cell[rc].u])]

Bounds ==
    [l |-> kpca_projections_l_, c |-> kpca_projections_,
     u |-> kpca_projections_u_]

SetBounds(b) ==
    /\ kpca_projections_l_' = b.l
    /\ kpca_projections_' = b.c
    /\ kpca_projections_u_' = b.u

SetZero ==
    /\ alive
    /\ SetBounds(SetZeroOf(Bounds))
    /\ call' = [op |-> "SetZero"]
    /\ pre' = KeptShape
    /\ UNCHANGED alive
    /\ UNCHANGED_others

Init(num_components, num_reference_points, query_points) ==
    /\ alive
    /\ SetBounds(InitOf(Bounds, num_components, num_reference_points,
                        query_points))
    /\ call' = [op |-> "Init", num_components |-> num_components,
                num_reference_points |-> num_reference_points,
                query_points |-> query_points]
    /\ pre' = Before(num_components, query_points)
    /\ UNCHANGED alive
    /\ UNCHANGED_others

\* The (k, i) the loops visit that the container does not hold.
OutOfRange == { rc \in Cells(kpca_projections_) :
                    ~InBounds(kernel_sum, rc[1], rc[2]) }

\* Export never checks the container's shape.  An element outside it is a
\* read outside the container's memory: it yields some element, or the
\* process dies in the middle of the call.
Export(num_standard_deviations, mult_const, correction_term_in) ==
    /\ alive
    /\ \/ \E stray \in [OutOfRange -> StrayStats] :
            LET read == [rc \in Cells(kpca_projections_) |->
                            IF rc \in OutOfRange THEN stray[rc]
                            ELSE get(kernel_sum, rc[1], rc[2])]
            IN  /\ SetBounds(ExportOf(Bounds, read, num_standard_deviations,
                                      mult_const, correction_term_in))
                /\ call' = [op |-> "Export",
                            num_standard_deviations |-> num_standard_deviations,
                            mult_const |-> mult_const,
                            correction_term_in |-> correction_term_in,
                            error |-> "none"]
                /\ pre' = KeptShape
                /\ UNCHANGED alive
       \/ /\ OutOfRange # {}
          /\ alive' = FALSE
          /\ UNCHANGED << kpca_projections_l_, kpca_projections_,
                          kpca_projections_u_, call, pre >>
    /\ UNCHANGED_others

-----------------------------------------------------------------------------
(* KpcaResult::set_eigendecomposition_results                              *)

EigenValues == { 1, 3, 9 }

\* An n_rows x n_cols eigenvector matrix whose element (j, c) names its
\* column and its row, so that no two columns are equal.
Eigenvectors(n_rows, n_cols) ==
    Mat(n_rows, n_cols,
        [x \in 1..(n_rows * n_cols) |->
            10 * (((x - 1) \div n_rows) + 1) + ((x - 1) % n_rows)])

\* The eigensolver outputs of the model: up to MaxEigenvalues eigenvalues,
\* and eigenvectors of up to MaxElems rows in as many columns as there are
\* eigenvalues, one fewer or one more.
EigenInputs ==
    { [kernel_eigenvalues_in |-> values,
       covariance_eigenvectors_in |-> Eigenvectors(n_rows, n_cols)] :
      << values, n_rows, n_cols >> \in
          { t \in (UNION { [1..n -> EigenValues] : n \in 0..MaxEigenvalues })
                  \X (0..MaxElems) \X (0..MaxEigenvalues) :
              /\ t[3] >= Len(t[1]) - 1
              /\ t[3] <= Len(t[1]) + 1 } }

\* std::pair<int, double>
Pair(first, second) == [first |-> first, second |-> second]

\* The vector the first loop fills: element i is (i, kernel_eigenvalues_in[i]).
PairsOf(kernel_eigenvalues_in) ==
    [i \in 1..Len(kernel_eigenvalues_in) |->
        Pair(i - 1, kernel_eigenvalues_in[i])]

\* The comparator handed to std::sort: _1.second > _2.second.
comp(a, b) == Gt(a.second, b.second)

Arrangements(n) ==
    { p \in [1..n -> 1..n] : \A i, j \in 1..n : p[i] = p[j] => i = j }

\* What std::sort may leave in the vector: any arrangement of its elements
\* in which no element is ordered before an earlier one by comp.  The order
\* of elements comp does not tell apart is unspecified.
SortOutcomes(v) ==
    { [i \in 1..Len(v) |-> v[p[i]]] : p \in
        { q \in Arrangements(Len(v)) :
            \A i, j \in 1..Len(v) : i < j => ~comp(v[q[j]], v[q[i]]) } }

\* What a read past the end of the sorted vector may yield.
StrayPairs == { Pair(0, 9), Pair(MaxEigenvalues + 1, 1) }

\* What a read outside the eigenvector matrix's memory may yield.
StrayElements == { 0, 77 }

\* The pairs the second loop reads, position by position (0-based), for
\* each column of covariance_eigenvectors_in.
PairsRead(sorted, n_cols, stray) ==
    [i \in 0..(n_cols - 1) |->
        IF i < Len(sorted) THEN sorted[i + 1] ELSE stray[i]]

\* The second loop as it would be reading the column of its own position.
ReorderOf_SameColumn(input, read, stray) ==
    LET vecs == input.covariance_eigenvectors_in
    IN  [values |-> [i \in 1..vecs.n_cols |-> read[i - 1].second],
         vectors |->
            MatOf(vecs.n_rows, vecs.n_cols,
                  [rc \in Cells(vecs) |-> at(vecs, rc[1], rc[2])])]

\* The members after set_size and the second loop: element i of
\* kernel_eigenvalues_ is the value read at position i, column i of
\* covariance_eigenvectors_ is the input's column read[i].first; `stray` is
\* what the reads outside the input matrix returned.
ReorderOf(input, read, stray) ==
    LET vecs == input.covariance_eigenvectors_in
    IN  [values |-> [i \in 1..vecs.n_cols |-> read[i - 1].second],
         vectors |->
            MatOf(vecs.n_rows, vecs.n_cols,
                  [rc \in Cells(vecs) |->
                      IF InBounds(vecs, rc[1], read[rc[2]].first)
                      THEN at(vecs, rc[1], read[rc[2]].first)
                      ELSE stray[rc]])]

UNCHANGED_bounds ==
    UNCHANGED << kpca_projections_l_, kpca_projections_, kpca_projections_u_,
                 reference_projections_, kpca_components_, kernel_sum,
                 eigen_in, files, writable, archive, sent, restored, pre >>

\* Neither the number of eigenvalues nor the indices read are checked
\* against the number of columns.  A read past the end of the vector, or
\* outside the matrix, yields some value, or the process dies.
set_eigendecomposition_results ==
    /\ alive
    /\ LET vecs == eigen_in.covariance_eigenvectors_in
           past == { i \in 0..(vecs.n_cols - 1) :
                        i >= Len(eigen_in.kernel_eigenvalues_in) }
       IN  \E sorted \in SortOutcomes(PairsOf(eigen_in.kernel_eigenvalues_in)),
              stray_pair \in [past -> StrayPairs] :
             LET read == PairsRead(sorted, vecs.n_cols, stray_pair)
                 outside == { rc \in Cells(vecs) :
                                ~InBounds(vecs, rc[1], read[rc[2]].first) }
             IN  \/ \E stray \in [outside -> StrayElements] :
                      LET result == ReorderOf(eigen_in, read, stray)
                      IN  /\ kernel_eigenvalues_' = result.values
                          /\ covariance_eigenvectors_' = result.vectors
                          /\ sorted_eigenvalues' = sorted
                          /\ call' = [op |-> "set_eigendecomposition_results",
                                      read |-> read]
                          /\ UNCHANGED alive
                 \/ /\ past # {} \/ outside # {}
                    /\ alive' = FALSE
                    /\ UNCHANGED << kernel_eigenvalues_,
                                    covariance_eigenvectors_,
                                    sorted_eigenvalues, call >>
    /\ UNCHANGED_bounds

-----------------------------------------------------------------------------
(* The accessors reference_projections() and kpca_components()             *)

UNCHANGED_results ==
    UNCHANGED << kpca_projections_l_, kpca_projections_, kpca_projections_u_,
                 kernel_eigenvalues_, covariance_eigenvectors_, kernel_sum,
                 eigen_in, sorted_eigenvalues, pre, alive >>

\* The caller stores a matrix through the reference reference_projections()
\* returns.
reference_projections(m) ==
    /\ alive
    /\ reference_projections_' = m
    /\ call' = [op |-> "reference_projections"]
    /\ UNCHANGED << kpca_components_, files, writable, archive, sent,
                    restored >>
    /\ UNCHANGED_results

\* The caller stores a matrix through the reference kpca_components()
\* returns.
kpca_components(m) ==
    /\ alive
    /\ kpca_components_' = m
    /\ call' = [op |-> "kpca_components"]
    /\ UNCHANGED << reference_projections_, files, writable, archive, sent,
                    restored >>
    /\ UNCHANGED_results

-----------------------------------------------------------------------------
(* KpcaResult::Print                                                       *)

Paths == { "projections.txt", "components.txt" }

\* A path with no file under it, and a file with its text.
NoFile == [exists |-> FALSE, text |-> << >>]

File(text) == [exists |-> TRUE, text |-> text]

\* fprintf(file, "%g ", x): the shortest decimal form of x and a space.  The
\* doubles of the model are whole numbers below 10^6 in size, which %g
\* prints digit for digit, or NaN.
FormatG(x) == IF x = NaN THEN "nan " ELSE ToString(x) \o " "

\* What the two loops print for a matrix: for each column its elements from
\* the top, each by FormatG, then a line break.
RECURSIVE TextOf(_, _)
TextOf(m, c) ==
    IF c >= m.n_cols THEN << >>
    ELSE [j \in 1..m.n_rows |-> FormatG(at(m, j - 1, c))] \o << "\n" >>
         \o TextOf(m, c + 1)

\* The calls made on the stream for a matrix: one fprintf per element and
\* per line break, and fclose.
StreamCalls(m) == n_elem(m) + m.n_cols + 1

\* The file system after Print, `open` telling for each of the two fopen
\* calls whether it returned a stream: fopen(.., "w+") empties the file, the
\* loops write it.  The projections come first, the components second.
PrintTo(components_file_name, projections_file_name, open, before) ==
    LET first == IF open[1]
                 THEN [before EXCEPT ![projections_file_name] =
                          File(TextOf(kpca_projections_, 0))]
                 ELSE before
    IN  IF open[2]
        THEN [first EXCEPT ![components_file_name] =
                 File(TextOf(kpca_components_, 0))]
        ELSE first

\* Neither fopen is checked.  A null stream handed to fprintf or fclose is
\* undefined: the process dies at the first such call, or the calls return
\* and Print goes on.  Print has no error to report either way.
Print_(kpca_components_file_name, kpca_projections_file_name) ==
    /\ alive
    /\ LET open1 == kpca_projections_file_name \in writable
           open2 == kpca_components_file_name \in writable
           done(open, null_calls, survived) ==
               /\ files' = PrintTo(kpca_components_file_name,
                                   kpca_projections_file_name, open, files)
               /\ call' = [op |-> "Print",
                           kpca_components_file_name |->
                               kpca_components_file_name,
                           kpca_projections_file_name |->
                               kpca_projections_file_name,
                           null_calls |-> null_calls,
                           error |-> "none"]
               /\ alive' = survived
       IN  \/ /\ open1 /\ open2
              /\ done(<< TRUE, TRUE >>, 0, TRUE)
           \/ /\ ~open1
              /\ done(<< FALSE, FALSE >>, 1, FALSE)
           \/ /\ open1 /\ ~open2
              /\ done(<< TRUE, FALSE >>, 1, FALSE)
           \/ /\ ~open1 \/ ~open2
              /\ done(<< open1, open2 >>,
                      (IF open1 THEN 0 ELSE StreamCalls(kpca_projections_))
                      + (IF open2 THEN 0 ELSE StreamCalls(kpca_components_)),
                      TRUE)
    /\ UNCHANGED << kpca_projections_l_, kpca_projections_,
                    kpca_projections_u_, kernel_eigenvalues_,
                    covariance_eigenvectors_, reference_projections_,
                    kpca_components_, kernel_sum, eigen_in,
                    sorted_eigenvalues, writable, archive, sent, restored,
                    pre >>

-----------------------------------------------------------------------------
(* KpcaResult::serialize                                                   *)

Members ==
    [kpca_projections_l_ |-> kpca_projections_l_,
     kpca_projections_ |-> kpca_projections_,
     kpca_projections_u_ |-> kpca_projections_u_,
     kernel_eigenvalues_ |-> kernel_eigenvalues_,
     covariance_eigenvectors_ |-> covariance_eigenvectors_,
     reference_projections_ |-> reference_projections_,
     kpca_components_ |-> kpca_components_]

\* The members of a KpcaResult right after its constructor.
DefaultMembers ==
    [kpca_projections_l_ |-> zeros(EmptyMat),
     kpca_projections_ |-> zeros(EmptyMat),
     kpca_projections_u_ |-> zeros(EmptyMat),
     kernel_eigenvalues_ |-> << >>,
     covariance_eigenvectors_ |-> EmptyMat,
     reference_projections_ |-> EmptyMat,
     kpca_components_ |-> EmptyMat]

\* The archive's record of a matrix: rows, columns, then the elements in
\* memory order.  A vector is recorded by its length and its elements.
Encode(name, value) ==
    IF name = "kernel_eigenvalues_"
    THEN << Len(value) >> \o value
    ELSE << value.n_rows, value.n_cols >> \o value.mem

\* The value at the head of an archive, read as the named member, and the
\* number of archive entries it took.
Decode(name, ar) ==
    IF name = "kernel_eigenvalues_"
    THEN [value |-> SubSeq(ar, 2, 1 + ar[1]), length |-> 1 + ar[1]]
    ELSE [value |-> Mat(ar[1], ar[2], SubSeq(ar, 3, 2 + ar[1] * ar[2])),
          length |-> 2 + ar[1] * ar[2]]

\* serialize as it would be with the upper bound ahead of the center.
serialize_UpperBeforeCenter ==
    << "kpca_projections_l_", "kpca_projections_u_", "kpca_projections_",
       "kernel_eigenvalues_", "covariance_eigenvectors_" >>

\* serialize(ar, version): the members handed to the archive, in order.  One
\* function serves saving and loading.
serialize ==
    << "kpca_projections_l_", "kpca_projections_", "kpca_projections_u_",
       "kernel_eigenvalues_", "covariance_eigenvectors_" >>

\* ar & member, member by member, into an output archive.
RECURSIVE SaveFrom(_, _)
SaveFrom(members, names) ==
    IF names = << >> THEN << >>
    ELSE Encode(Head(names), members[Head(names)])
         \o SaveFrom(members, Tail(names))

\* ar & member, member by member, out of an input archive.
RECURSIVE LoadInto(_, _, _)
LoadInto(members, names, ar) ==
    IF names = << >> THEN members
    ELSE LET got == Decode(Head(names), ar)
         IN  LoadInto([members EXCEPT ![Head(names)] = got.value],
                      Tail(names), SubSeq(ar, got.length + 1, Len(ar)))

UNCHANGED_object ==
    UNCHANGED << kpca_projections_l_, kpca_projections_, kpca_projections_u_,
                 kernel_eigenvalues_, covariance_eigenvectors_,
                 reference_projections_, kpca_components_, kernel_sum,
                 eigen_in, sorted_eigenvalues, files, writable, pre, alive >>

\* This node saves its KpcaResult into an archive.
Save ==
    /\ alive
    /\ archive' = SaveFrom(Members, serialize)
    /\ sent' = Members
    /\ call' = [op |-> "save"]
    /\ UNCHANGED restored
    /\ UNCHANGED_object

\* The receiving node default-constructs a KpcaResult and loads the archive
\* into it.
Load ==
    /\ alive
    /\ archive # << >>
    /\ restored' = LoadInto(DefaultMembers, serialize, archive)
    /\ call' = [op |-> "load"]
    /\ UNCHANGED << archive, sent >>
    /\ UNCHANGED_object

-----------------------------------------------------------------------------
(* The state after construction                                            *)

\* KpcaResult(): every member default-constructed (empty), then SetZero.
KpcaResult ==
    /\ kpca_projections_l_ = zeros(EmptyMat)
    /\ kpca_projections_ = zeros(EmptyMat)
    /\ kpca_projections_u_ = zeros(EmptyMat)
    /\ kernel_eigenvalues_ = << >>
    /\ covariance_eigenvectors_ = EmptyMat
    /\ reference_projections_ = EmptyMat
    /\ kpca_components_ = EmptyMat
    /\ sorted_eigenvalues = << >>
    /\ call = NoCall
    /\ pre = [zero |-> TRUE, resized |-> FALSE]
    /\ alive = TRUE

NoEigenInput == [kernel_eigenvalues_in |-> << >>,
                 covariance_eigenvectors_in |-> EmptyMat]

NoFiles ==
    /\ files = [p \in Paths |-> NoFile]
    /\ writable = {}

NoTransfer ==
    /\ archive = << >>
    /\ sent = DefaultMembers
    /\ restored = DefaultMembers

-----------------------------------------------------------------------------
(* The bound matrices: Init, SetZero and Export on any container           *)

InitBounds ==
    /\ KpcaResult
    /\ kernel_sum \in KernelSums
    /\ eigen_in = NoEigenInput
    /\ NoFiles
    /\ NoTransfer

NextBounds ==
    \/ SetZero
    \/ \E shape \in Shapes, num_reference_points \in NumReferencePoints :
            Init(shape[1], num_reference_points, shape[2])
    \/ \E num_standard_deviations \in NumStandardDeviations,
          mult_const \in MultConsts,
          correction_term_in \in CorrectionTerms :
            Export(num_standard_deviations, mult_const, correction_term_in)

SpecBounds == InitBounds /\ [][NextBounds]_vars

-----------------------------------------------------------------------------
(* The eigen fields: set_eigendecomposition_results on any solver output   *)

InitEigen ==
    /\ KpcaResult
    /\ kernel_sum = EmptyMat
    /\ eigen_in \in EigenInputs
    /\ NoFiles
    /\ NoTransfer

NextEigen == set_eigendecomposition_results

SpecEigen == InitEigen /\ [][NextEigen]_vars

-----------------------------------------------------------------------------
(* Emission: a result filled from the container of the 2 x 1 example,      *)
(* printed under every pair of names on every file system                  *)

ExampleKernelSum == Mat(2, 1, << Stat(10, 4), Stat(20, 1) >>)

ComponentsIn == { Mat(1, 1, << 7 >>), Mat(2, 2, << 1, 0, 0, 1 >>) }

InitPrint ==
    /\ KpcaResult
    /\ kernel_sum = ExampleKernelSum
    /\ eigen_in = NoEigenInput
    /\ files = [p \in Paths |-> NoFile]
    /\ writable \in SUBSET Paths
    /\ NoTransfer

NextPrint ==
    \/ \E shape \in { << 2, 1 >>, << 1, 1 >> } : Init(shape[1], 5, shape[2])
    \/ Export(2, 1, 0)
    \/ \E m \in ComponentsIn : kpca_components(m)
    \/ \E kpca_components_file_name \in Paths,
          kpca_projections_file_name \in Paths :
            Print_(kpca_components_file_name, kpca_projections_file_name)

SpecPrint == InitPrint /\ [][NextPrint]_vars

-----------------------------------------------------------------------------
(* Transfer: a result filled by Init, Export, the reordering and the       *)
(* accessors, saved on one node and loaded on another                      *)

SerialEigenInputs ==
    { [kernel_eigenvalues_in |-> << 3, 9 >>,
       covariance_eigenvectors_in |-> Eigenvectors(1, 2)],
      [kernel_eigenvalues_in |-> << 3, 9, 1 >>,
       covariance_eigenvectors_in |-> Eigenvectors(2, 3)] }

InitSerial ==
    /\ KpcaResult
    /\ kernel_sum = ExampleKernelSum
    /\ eigen_in \in SerialEigenInputs
    /\ NoFiles
    /\ NoTransfer

NextSerial ==
    \/ Init(2, 5, 1)
    \/ \E mult_const \in { -1, 1 } : Export(2, mult_const, 0)
    \/ set_eigendecomposition_results
    \/ reference_projections(Mat(1, 2, << 4, 5 >>))
    \/ kpca_components(Mat(1, 1, << 7 >>))
    \/ Save
    \/ Load

SpecSerial == InitSerial /\ [][NextSerial]_vars

-----------------------------------------------------------------------------
(* The whole object.  Each specification above starts in states of InitAll *)
(* and takes steps of Next only: it is this one with the inputs of the     *)
(* other members held fixed.                                               *)

MatricesIn == ComponentsIn \cup { Mat(1, 2, << 4, 5 >>) }

InitAll ==
    /\ KpcaResult
    /\ kernel_sum \in KernelSums
    /\ eigen_in \in EigenInputs
    /\ files = [p \in Paths |-> NoFile]
    /\ writable \in SUBSET Paths
    /\ NoTransfer

Next ==
    \/ NextBounds
    \/ NextEigen
    \/ \E m \in MatricesIn : reference_projections(m)
    \/ \E m \in MatricesIn : kpca_components(m)
    \/ \E kpca_components_file_name \in Paths,
          kpca_projections_file_name \in Paths :
            Print_(kpca_components_file_name, kpca_projections_file_name)
    \/ Save
    \/ Load

Spec == InitAll /\ [][Next]_vars

-----------------------------------------------------------------------------
(* Properties of the bound matrices                                        *)

\* The last completed call was Export and every (k, i) it visited is an
\* element of the container.
ExportedInRange == call.op = "Export" /\ OutOfRange = {}

lower(rc) == at(kpca_projections_l_, rc[1], rc[2])

center(rc) == at(kpca_projections_, rc[1], rc[2])

upper(rc) == at(kpca_projections_u_, rc[1], rc[2])

mean(rc) == get(kernel_sum, rc[1], rc[2]).sample_mean

variance(rc) == get(kernel_sum, rc[1], rc[2]).sample_mean_variance

Ordered(rc) == Leq(lower(rc), center(rc)) /\ Leq(center(rc), upper(rc))

\* C1: after Export with numStandardDeviations >= 0 and
\* multiplicativeConstant >= 0, every cell (k, i) whose variance is >= 0
\* satisfies lower[k,i] <= center[k,i] <= upper[k,i].
C1_ExportOrdersBounds ==
    ( /\ ExportedInRange
      /\ call.num_standard_deviations >= 0
      /\ call.mult_const >= 0 )
    => \A rc \in Cells(kpca_projections_) : variance(rc) >= 0 => Ordered(rc)

\* An Export with two standard deviations and constant 1 left a cell with
\* lower < center < upper.
C1_Witness ==
    /\ ExportedInRange
    /\ call.num_standard_deviations = 2
    /\ call.mult_const = 1
    /\ \E rc \in Cells(kpca_projections_) :
          /\ variance(rc) = 4
          /\ lower(rc) < center(rc)
          /\ center(rc) < upper(rc)

\* C2: in every state reached through the constructor, Init, SetZero and
\* Export, lower[k,i] <= center[k,i] <= upper[k,i] holds for every cell whose
\* variance is >= 0 when numStandardDeviations >= 0, whatever the sign of
\* multiplicativeConstant.
C2_BoundsAlwaysOrdered ==
    \A rc \in Cells(kpca_projections_) :
        ( call.op = "Export" =>
            /\ rc \notin OutOfRange
            /\ call.num_standard_deviations >= 0
            /\ variance(rc) >= 0 )
        => Ordered(rc)

\* C3: Export overwrites every cell with
\*   center = (mean - correctionTerm) * multiplicativeConstant,
\*   lower  = (mean - correctionTerm - deviation) * multiplicativeConstant,
\*   upper  = (mean - correctionTerm + deviation) * multiplicativeConstant,
\* deviation = numStandardDeviations * sqrt(variance), whatever the matrices
\* held before; means 10 and 20 with variances 4 and 1, two standard
\* deviations, constant 1 and correction 0 give center [10, 20],
\* lower [6, 18] and upper [14, 22].
C3_ExportFormula ==
    /\ ExportedInRange =>
        \A rc \in Cells(kpca_projections_) :
            LET deviation ==
                    Mul(call.num_standard_deviations, Sqrt(variance(rc)))
                shifted == Sub(mean(rc), call.correction_term_in)
            IN  /\ center(rc) = Mul(shifted, call.mult_const)
                /\ lower(rc) = Mul(Sub(shifted, deviation), call.mult_const)
                /\ upper(rc) = Mul(Add(shifted, deviation), call.mult_const)
    /\ ( /\ call.op = "Export"
         /\ call.num_standard_deviations = 2
         /\ call.mult_const = 1
         /\ call.correction_term_in = 0
         /\ kernel_sum = Mat(2, 1, << Stat(10, 4), Stat(20, 1) >>)
         /\ kpca_projections_.n_rows = 2
         /\ kpca_projections_.n_cols = 1 )
       => /\ kpca_projections_ = Mat(2, 1, << 10, 20 >>)
          /\ kpca_projections_l_ = Mat(2, 1, << 6, 18 >>)
          /\ kpca_projections_u_ = Mat(2, 1, << 14, 22 >>)

\* The example of C3, exported over matrices that held other values.
C3_Witness ==
    /\ call.op = "Export"
    /\ pre.zero = FALSE
    /\ kernel_sum = Mat(2, 1, << Stat(10, 4), Stat(20, 1) >>)
    /\ kpca_projections_l_ = Mat(2, 1, << 6, 18 >>)
    /\ kpca_projections_u_ = Mat(2, 1, << 14, 22 >>)

\* C6: an Export with a container whose shape differs from the bound
\* matrices' fails with DimensionMismatch and leaves the three matrices as
\* they were.
C6_MismatchRejected ==
    [][ ( /\ alive'
          /\ call'.op = "Export"
          /\ ~SameShape(kernel_sum, kpca_projections_) )
        => /\ call'.error = "DimensionMismatch"
           /\ kpca_projections_l_' = kpca_projections_l_
           /\ kpca_projections_' = kpca_projections_
           /\ kpca_projections_u_' = kpca_projections_u_ ]_vars

IsZeroMat(m, rows, cols) ==
    /\ m.n_rows = rows
    /\ m.n_cols = cols
    /\ Len(m.mem) = rows * cols
    /\ \A x \in 1..Len(m.mem) : m.mem[x] = 0

\* C7: after Init(C, R, Q), from any prior state and for any R, the three
\* bound matrices are C x Q and all zero, and one more Init(C, R, Q) leaves
\* them as they are.
C7_InitShapesAndZeros ==
    call.op = "Init" =>
        /\ IsZeroMat(kpca_projections_l_, call.num_components,
                     call.query_points)
        /\ IsZeroMat(kpca_projections_, call.num_components,
                     call.query_points)
        /\ IsZeroMat(kpca_projections_u_, call.num_components,
                     call.query_points)
        /\ InitOf(Bounds, call.num_components, call.num_reference_points,
                  call.query_points) = Bounds

\* An Init that changed the shape of matrices an Export had filled.
C7_Witness ==
    /\ call.op = "Init"
    /\ pre.zero = FALSE
    /\ pre.resized
    /\ call.num_components * call.query_points > 1
    /\ call.num_reference_points < 0

-----------------------------------------------------------------------------
(* Properties of the eigen fields                                          *)

Reordered == call.op = "set_eigendecomposition_results"

\* The number of eigenvalues handed in, and of eigenvector columns.
NumValuesIn == Len(eigen_in.kernel_eigenvalues_in)

NumColumnsIn == eigen_in.covariance_eigenvectors_in.n_cols

\* Column c (0-based) of a matrix, top to bottom.
Column(m, c) == [j \in 1..m.n_rows |-> m.mem[c * m.n_rows + j]]

\* C4: with n eigenvalues and n eigenvector columns, the stored eigenvalues
\* are a rearrangement of the input eigenvalues, sorted non-increasing, and
\* each stored column j is the input column that belonged to the eigenvalue
\* stored at j.
C4_SortedPermutation ==
    ( Reordered /\ NumValuesIn = NumColumnsIn ) =>
        /\ Len(kernel_eigenvalues_) = NumValuesIn
        /\ SameShape(covariance_eigenvectors_,
                     eigen_in.covariance_eigenvectors_in)
        /\ \A j \in 1..(NumValuesIn - 1) :
              kernel_eigenvalues_[j] >= kernel_eigenvalues_[j + 1]
        /\ \E p \in Arrangements(NumValuesIn) :
              \A j \in 1..NumValuesIn :
                  /\ kernel_eigenvalues_[j] =
                        eigen_in.kernel_eigenvalues_in[p[j]]
                  /\ Column(covariance_eigenvectors_, j - 1) =
                        Column(eigen_in.covariance_eigenvectors_in, p[j] - 1)

\* Eigenvalues [3, 9, 1] with columns [v0, v1, v2] were stored as [9, 3, 1]
\* with columns [v1, v0, v2].
C4_Witness ==
    /\ Reordered
    /\ eigen_in.kernel_eigenvalues_in = << 3, 9, 1 >>
    /\ eigen_in.covariance_eigenvectors_in =
          Mat(2, 3, << 10, 11, 20, 21, 30, 31 >>)
    /\ kernel_eigenvalues_ = << 9, 3, 1 >>
    /\ covariance_eigenvectors_ = Mat(2, 3, << 20, 21, 10, 11, 30, 31 >>)

\* C5: equal eigenvalues are placed in ascending order of their original
\* index, so that the input alone determines the order of the stored
\* columns.
C5_TiesByOriginalIndex ==
    Reordered =>
        \A i, j \in 1..Len(sorted_eigenvalues) :
            ( i < j /\ sorted_eigenvalues[i].second = sorted_eigenvalues[j].second )
            => sorted_eigenvalues[i].first < sorted_eigenvalues[j].first

\* C10: with n eigenvalues and m columns, the stored eigenvalue sequence has
\* m entries, the stored matrix has the input's rows and m columns, every
\* position read from the sorted vector is < n and every column index used
\* to read the input matrix is < m.
C10_SizesAndReadsInRange ==
    Reordered =>
        /\ Len(kernel_eigenvalues_) = NumColumnsIn
        /\ SameShape(covariance_eigenvectors_,
                     eigen_in.covariance_eigenvectors_in)
        /\ \A i \in 0..(NumColumnsIn - 1) :
              /\ i < NumValuesIn
              /\ eigen_in.covariance_eigenvectors_in.n_rows > 0
                    => call.read[i].first < NumColumnsIn

-----------------------------------------------------------------------------
(* Properties of the transfer                                              *)

\* C8: loading a saved KpcaResult into a freshly constructed one reproduces
\* the lower, center and upper matrices, the eigenvalues and the
\* eigenvectors, which the archive holds in that order; the reference
\* projections and the components are not in the archive and stay empty on
\* the loaded side.
C8_RoundTrip ==
    call.op = "load" =>
        /\ restored.kpca_projections_l_ = sent.kpca_projections_l_
        /\ restored.kpca_projections_ = sent.kpca_projections_
        /\ restored.kpca_projections_u_ = sent.kpca_projections_u_
        /\ restored.kernel_eigenvalues_ = sent.kernel_eigenvalues_
        /\ restored.covariance_eigenvectors_ = sent.covariance_eigenvectors_
        /\ restored.reference_projections_ = EmptyMat
        /\ restored.kpca_components_ = EmptyMat
        /\ archive =
              << sent.kpca_projections_l_.n_rows,
                 sent.kpca_projections_l_.n_cols >>
              \o sent.kpca_projections_l_.mem
              \o << sent.kpca_projections_.n_rows,
                    sent.kpca_projections_.n_cols >>
              \o sent.kpca_projections_.mem
              \o << sent.kpca_projections_u_.n_rows,
                    sent.kpca_projections_u_.n_cols >>
              \o sent.kpca_projections_u_.mem
              \o << Len(sent.kernel_eigenvalues_) >>
              \o sent.kernel_eigenvalues_
              \o << sent.covariance_eigenvectors_.n_rows,
                    sent.covariance_eigenvectors_.n_cols >>
              \o sent.covariance_eigenvectors_.mem

\* A result with distinct bounds, eigen fields, reference projections and
\* components was saved and loaded.
C8_Witness ==
    /\ call.op = "load"
    /\ sent.kpca_projections_l_ = Mat(2, 1, << 6, 18 >>)
    /\ sent.kpca_projections_u_ = Mat(2, 1, << 14, 22 >>)
    /\ sent.kernel_eigenvalues_ = << 9, 3, 1 >>
    /\ sent.reference_projections_ # EmptyMat
    /\ sent.kpca_components_ # EmptyMat
    /\ restored.kpca_projections_u_ = Mat(2, 1, << 14, 22 >>)
    /\ restored.covariance_eigenvectors_ = sent.covariance_eigenvectors_

-----------------------------------------------------------------------------
(* Properties of the emission                                              *)

\* C9: when a destination of the emission cannot be opened for writing, the
\* operation fails with an IOError naming that path and makes no call on
\* the stream that was not opened, be it the projections' (opened first) or
\* the components' (opened second).
C9_IOErrorOnUnopenedPath ==
    ( /\ call.op = "Print"
      /\ \/ call.kpca_projections_file_name \notin writable
         \/ call.kpca_components_file_name \notin writable )
    => /\ call.error = "IOError"
       /\ call.null_calls = 0

=============================================================================
